---- MODULE Spec2Model ----
(***************************************************************************)
(* Model of hydra/experimental/initialize.py: the three initialization     *)
(* entry points, their context-manager variants, and the GlobalHydra       *)
(* singleton they install into and restore.                                *)
(*                                                                         *)
(* Python strings are sequences of tokens ("/" and "." are the separator   *)
(* tokens), Optional values are sequences of length 0 (None) or 1, and an  *)
(* argument of a call is an Optional of its value: of length 0 when the    *)
(* caller leaves it out and the signature's default applies.               *)
(***************************************************************************)
EXTENDS Integers, Sequences, FiniteSets, TLC

\* ------------------------------------------------------------------ bounds
MaxStack == 2      \* user frames on the call stack above an entry point
MaxNesting == 2    \* scopes open at the same time

\* ---------------------------------------------------------------- Optional
None == << >>
Some(v) == << v >>
IsNone(o) == o = << >>
Get(o) == o[1]

\* an argument left out of the call takes the signature's default
ArgOr(arg, default) == IF arg = << >> THEN default ELSE arg[1]

\* ----------------------------------------------------------------- strings
rfind(s, t) ==
    IF \E i \in 1..Len(s) : s[i] = t
    THEN CHOOSE i \in 1..Len(s) : s[i] = t /\ \A j \in (i + 1)..Len(s) : s[j] # t
    ELSE 0

isabs(p) == Len(p) > 0 /\ p[1] = "/"

basename(p) == SubSeq(p, rfind(p, "/") + 1, Len(p))

dirname(p) ==
    LET i == rfind(p, "/")
    IN  IF i = 0 THEN << >>
        ELSE IF i = 1 THEN << "/" >>
        ELSE SubSeq(p, 1, i - 1)

splitext_root(p) ==
    LET i == rfind(p, ".")
    IN  IF i > 1 THEN SubSeq(p, 1, i - 1) ELSE p

join(a, b) ==
    IF isabs(b) \/ a = << >> THEN b
    ELSE IF a[Len(a)] = "/" THEN a \o b
    ELSE a \o << "/" >> \o b

\* ------------------------------------------------------------------ frames
\* A frame of the call stack: a script file, an imported module, or an
\* interactively evaluated cell with no backing file.
ScriptFile == << "/", "a", "/", "b", "/", "my_app", ".", "py" >>
ModuleName == << "pkg", ".", "sub", ".", "runner" >>

ScriptFrame == [kind |-> "file", name |-> ScriptFile]
ModuleFrame == [kind |-> "module", name |-> ModuleName]
NotebookFrame == [kind |-> "notebook", name |-> << >>]

UserFrames == {ScriptFrame, ModuleFrame, NotebookFrame}

\* frames of this file's own functions and of contextlib's __enter__
LibFrame(fn) == [kind |-> "module", name |-> << "hydra", ".", "experimental", ".", fn >>]
ContextlibFrame == [kind |-> "module", name |-> << "contextlib", ".", "__enter__" >>]

\* ----------------------------------------------------- hydra._internal.utils
\* stack[1] is the detector's own frame, so stack_depth = 1 is its caller.
detect_calling_file_or_module_from_stack_frame(stack, stack_depth) ==
    IF stack_depth + 1 > Len(stack)
    THEN [err |-> "DetectionError", calling_file |-> None, calling_module |-> None]
    ELSE LET frame == stack[stack_depth + 1]
         IN  IF frame.kind = "notebook"
             THEN [err |-> "ok", calling_file |-> None, calling_module |-> None]
             ELSE IF frame.kind = "file"
             THEN [err |-> "ok", calling_file |-> Some(frame.name), calling_module |-> None]
             ELSE [err |-> "ok", calling_file |-> None, calling_module |-> Some(frame.name)]

detect_task_name(calling_file, calling_module) ==
    IF ~IsNone(calling_file)
    THEN splitext_root(basename(Get(calling_file)))
    ELSE IF ~IsNone(calling_module)
    THEN SubSeq(Get(calling_module), rfind(Get(calling_module), ".") + 1, Len(Get(calling_module)))
    ELSE << "app" >>

DefaultEntry ==
    [provider |-> "hydra", schema |-> "PackageResource", path |-> << "hydra", ".", "conf" >>]

FileEntry(dir) == [provider |-> "main", schema |-> "FileSystem", path |-> dir]
PackageEntry(mod) == [provider |-> "main", schema |-> "PackageResource", path |-> mod]

\* faulty variant: the built-in entry is put ahead of the directory given
create_config_search_path_default_first(search_path_dir) ==
    << DefaultEntry >>
        \o (IF IsNone(search_path_dir) THEN << >> ELSE << FileEntry(Get(search_path_dir)) >>)

create_config_search_path(search_path_dir) ==
    (IF IsNone(search_path_dir) THEN << >> ELSE << FileEntry(Get(search_path_dir)) >>)
        \o << DefaultEntry >>

\* ------------------------------------------------------------ GlobalHydra
\* Objects live in a heap; the singleton is a reference into it.  A world is
\* the heap together with the reference GlobalHydra.instance() returns.
Ids == 0..(MaxNesting + 1)

\* content of a GlobalHydra object: hydra is None until one is installed
Absent == [hydra |-> None]

Content(w) == w.heap[w.inst]

GlobalHydra_instance(w) == w.inst

\* faulty variant: the snapshot is the singleton itself, not a copy of it
deepcopy_alias(w, id, held) == [w |-> w, ref |-> id]

\* faulty variant: every scope keeps its snapshot in one shared object
deepcopy_shared(w, id, held) ==
    LET new == CHOOSE i \in Ids : i # w.inst /\ \A j \in Ids : j # w.inst => i <= j
    IN  [w |-> [w EXCEPT !.heap[new] = w.heap[id]], ref |-> new]

\* a new object with the content of object id; held are the references
\* other code still holds
deepcopy(w, id, held) ==
    LET new == CHOOSE i \in Ids : i \notin (held \cup {w.inst})
                   /\ \A j \in Ids : j \notin (held \cup {w.inst}) => i <= j
    IN  [w |-> [w EXCEPT !.heap[new] = w.heap[id]], ref |-> new]

\* the singleton becomes gh; the object it was is dropped unless still held
GlobalHydra_set_instance(w, gh, held) ==
    [heap |-> [i \in Ids |-> IF i = w.inst /\ i # gh /\ i \notin held
                             THEN Absent ELSE w.heap[i]],
     inst |-> gh]

GlobalHydra_clear(w) == [w EXCEPT !.heap[w.inst].hydra = None]

\* faulty variant: a second installation keeps the entries of the first
GlobalHydra_initialize_merge(w, hydra) ==
    IF IsNone(w.heap[w.inst].hydra) THEN [w EXCEPT !.heap[w.inst].hydra = Some(hydra)]
    ELSE [w EXCEPT !.heap[w.inst].hydra =
             Some([hydra EXCEPT !.searchPath = Get(w.heap[w.inst].hydra).searchPath \o @])]

\* sets the field of the singleton object in place, whatever it held
GlobalHydra_initialize(w, hydra) == [w EXCEPT !.heap[w.inst].hydra = Some(hydra)]

Ok(w) == [err |-> "ok", w |-> w]
Raise(e, w) == [err |-> e, w |-> w]

\* ----------------------------------------------------- hydra._internal.hydra
Hydra_create_main_hydra2(task_name, config_search_path, strict, w) ==
    Ok(GlobalHydra_initialize(w,
        [searchPath |-> config_search_path, jobName |-> task_name, strict |-> strict]))

\* the package an importable module lives in: its name up to the last dot
package_of(mod) ==
    LET i == rfind(mod, ".")
    IN  IF i = 0 THEN << >> ELSE SubSeq(mod, 1, i - 1)

\* faulty variant: a relative config_path of a module caller is resolved in the
\* module's package instead of being rejected
Hydra_create_main_hydra_file_or_module_pkg(calling_file, calling_module, config_path, job_name, strict, w) ==
    IF ~IsNone(config_path) /\ isabs(Get(config_path))
    THEN Hydra_create_main_hydra2(job_name, create_config_search_path(config_path), strict, w)
    ELSE IF ~IsNone(calling_file)
    THEN IF IsNone(config_path)
         THEN Hydra_create_main_hydra2(job_name, create_config_search_path(None), strict, w)
         ELSE Hydra_create_main_hydra2(job_name,
                  create_config_search_path(Some(join(dirname(Get(calling_file)), Get(config_path)))),
                  strict, w)
    ELSE IF ~IsNone(calling_module)
    THEN Hydra_create_main_hydra2(job_name,
             << PackageEntry(package_of(Get(calling_module))
                                 \o (IF IsNone(config_path) THEN << >>
                                     ELSE << "." >> \o Get(config_path))),
                DefaultEntry >>, strict, w)
    ELSE IF ~IsNone(config_path)
    THEN Raise("UnsupportedCallerError", w)
    ELSE Hydra_create_main_hydra2(job_name, create_config_search_path(None), strict, w)

\* faulty variant: with no calling file and no calling module a relative
\* config_path is taken as it is, relative to the working directory
Hydra_create_main_hydra_file_or_module_cwd(calling_file, calling_module, config_path, job_name, strict, w) ==
    IF ~IsNone(config_path) /\ isabs(Get(config_path))
    THEN Hydra_create_main_hydra2(job_name, create_config_search_path(config_path), strict, w)
    ELSE IF ~IsNone(calling_file)
    THEN IF IsNone(config_path)
         THEN Hydra_create_main_hydra2(job_name, create_config_search_path(None), strict, w)
         ELSE Hydra_create_main_hydra2(job_name,
                  create_config_search_path(Some(join(dirname(Get(calling_file)), Get(config_path)))),
                  strict, w)
    ELSE IF ~IsNone(config_path) /\ ~IsNone(calling_module)
    THEN Raise("UnsupportedCallerError", w)
    ELSE IF ~IsNone(config_path)
    THEN Hydra_create_main_hydra2(job_name, create_config_search_path(config_path), strict, w)
    ELSE IF ~IsNone(calling_module)
    THEN Hydra_create_main_hydra2(job_name,
             << PackageEntry(package_of(Get(calling_module))), DefaultEntry >>, strict, w)
    ELSE Hydra_create_main_hydra2(job_name, create_config_search_path(None), strict, w)

Hydra_create_main_hydra_file_or_module(calling_file, calling_module, config_path, job_name, strict, w) ==
    IF ~IsNone(config_path) /\ isabs(Get(config_path))
    THEN Hydra_create_main_hydra2(job_name, create_config_search_path(config_path), strict, w)
    ELSE IF ~IsNone(calling_file)
    THEN IF IsNone(config_path)
         THEN Hydra_create_main_hydra2(job_name, create_config_search_path(None), strict, w)
         ELSE Hydra_create_main_hydra2(job_name,
                  create_config_search_path(Some(join(dirname(Get(calling_file)), Get(config_path)))),
                  strict, w)
    ELSE IF ~IsNone(config_path)
    THEN Raise("UnsupportedCallerError", w)
    ELSE IF ~IsNone(calling_module)
    THEN Hydra_create_main_hydra2(job_name,
             << PackageEntry(package_of(Get(calling_module))), DefaultEntry >>, strict, w)
    ELSE Hydra_create_main_hydra2(job_name, create_config_search_path(None), strict, w)

\* ------------------------------------------------ experimental/initialize.py
\* Arguments of a call: a record of Optionals, None where the caller leaves
\* the argument out.  callers are the frames above the entry point, the
\* entry point's direct caller first.
AppName == << "app" >>

\* faulty variant: a job name of None becomes the default name, not the caller's
initialize_noderive(callers, a, w) ==
    LET config_path == ArgOr(a.path, None)
        job_name == ArgOr(a.job_name, Some(AppName))
        strict == ArgOr(a.strict, None)
        caller_stack_depth == ArgOr(a.depth, 1)
        d == detect_calling_file_or_module_from_stack_frame(
                 << LibFrame("detect"), LibFrame("initialize") >> \o callers,
                 caller_stack_depth + 1)
    IN  IF d.err # "ok" THEN Raise(d.err, w)
        ELSE LET jn == IF IsNone(job_name) THEN AppName ELSE Get(job_name)
             IN  Hydra_create_main_hydra_file_or_module(
                     d.calling_file, d.calling_module, config_path, jn, strict, w)

initialize(callers, a, w) ==
    LET config_path == ArgOr(a.path, None)
        job_name == ArgOr(a.job_name, Some(AppName))
        strict == ArgOr(a.strict, None)
        caller_stack_depth == ArgOr(a.depth, 1)
        d == detect_calling_file_or_module_from_stack_frame(
                 << LibFrame("detect"), LibFrame("initialize") >> \o callers,
                 caller_stack_depth + 1)
    IN  IF d.err # "ok" THEN Raise(d.err, w)
        ELSE LET jn == IF IsNone(job_name)
                       THEN detect_task_name(d.calling_file, d.calling_module)
                       ELSE Get(job_name)
             IN  Hydra_create_main_hydra_file_or_module(
                     d.calling_file, d.calling_module, config_path, jn, strict, w)

\* faulty variant: the config module itself is given as the calling module
initialize_config_module_plain(a, w) ==
    LET config_module == Get(a.path)
        job_name == ArgOr(a.job_name, AppName)
    IN  Hydra_create_main_hydra_file_or_module(
            None, Some(config_module), None, job_name, None, w)

\* config_module is a's path; f"{config_module}.{job_name}" is the calling module
initialize_config_module(a, w) ==
    LET config_module == Get(a.path)
        job_name == ArgOr(a.job_name, AppName)
    IN  Hydra_create_main_hydra_file_or_module(
            None, Some(config_module \o << "." >> \o job_name), None, job_name, None, w)

\* faulty variant: a module caller is rejected before config_dir is looked at
initialize_config_dir_check_first(callers, a, w) ==
    LET config_dir == Get(a.path)
        job_name == ArgOr(a.job_name, None)
        caller_stack_depth == ArgOr(a.depth, 1)
        d == detect_calling_file_or_module_from_stack_frame(
                 << LibFrame("detect"), LibFrame("initialize_config_dir") >> \o callers,
                 caller_stack_depth + 1)
    IN  IF d.err # "ok" THEN Raise(d.err, w)
        ELSE LET jn == IF IsNone(job_name)
                       THEN detect_task_name(d.calling_file, d.calling_module)
                       ELSE Get(job_name)
             IN  IF ~IsNone(d.calling_module)
                 THEN Raise("UnsupportedCallerError", w)
                 ELSE IF isabs(config_dir)
                 THEN Hydra_create_main_hydra2(
                          jn, create_config_search_path(Some(config_dir)), None, w)
                 ELSE Hydra_create_main_hydra_file_or_module(
                          d.calling_file, None, Some(config_dir), jn, None, w)

\* faulty variant: config_dir is taken as absolute whatever it is
initialize_config_dir_noabs(callers, a, w) ==
    LET config_dir == Get(a.path)
        job_name == ArgOr(a.job_name, None)
        caller_stack_depth == ArgOr(a.depth, 1)
        d == detect_calling_file_or_module_from_stack_frame(
                 << LibFrame("detect"), LibFrame("initialize_config_dir") >> \o callers,
                 caller_stack_depth + 1)
    IN  IF d.err # "ok" THEN Raise(d.err, w)
        ELSE LET jn == IF IsNone(job_name)
                       THEN detect_task_name(d.calling_file, d.calling_module)
                       ELSE Get(job_name)
             IN  Hydra_create_main_hydra2(
                     jn, create_config_search_path(Some(config_dir)), None, w)

\* faulty variant: the caller is looked for only when something needs it
initialize_config_dir_lazy(callers, a, w) ==
    LET config_dir == Get(a.path)
        job_name == ArgOr(a.job_name, None)
        caller_stack_depth == ArgOr(a.depth, 1)
        d == detect_calling_file_or_module_from_stack_frame(
                 << LibFrame("detect"), LibFrame("initialize_config_dir") >> \o callers,
                 caller_stack_depth + 1)
    IN  IF isabs(config_dir) /\ ~IsNone(job_name)
        THEN Hydra_create_main_hydra2(
                 Get(job_name), create_config_search_path(Some(config_dir)), None, w)
        ELSE IF d.err # "ok" THEN Raise(d.err, w)
        ELSE LET jn == IF IsNone(job_name)
                       THEN detect_task_name(d.calling_file, d.calling_module)
                       ELSE Get(job_name)
             IN  IF isabs(config_dir)
                 THEN Hydra_create_main_hydra2(
                          jn, create_config_search_path(Some(config_dir)), None, w)
                 ELSE IF ~IsNone(d.calling_module)
                 THEN Raise("UnsupportedCallerError", w)
                 ELSE Hydra_create_main_hydra_file_or_module(
                          d.calling_file, None, Some(config_dir), jn, None, w)

initialize_config_dir(callers, a, w) ==
    LET config_dir == Get(a.path)
        job_name == ArgOr(a.job_name, None)
        caller_stack_depth == ArgOr(a.depth, 1)
        d == detect_calling_file_or_module_from_stack_frame(
                 << LibFrame("detect"), LibFrame("initialize_config_dir") >> \o callers,
                 caller_stack_depth + 1)
    IN  IF d.err # "ok" THEN Raise(d.err, w)
        ELSE LET jn == IF IsNone(job_name)
                       THEN detect_task_name(d.calling_file, d.calling_module)
                       ELSE Get(job_name)
             IN  IF isabs(config_dir)
                 THEN Hydra_create_main_hydra2(
                          jn, create_config_search_path(Some(config_dir)), None, w)
                 ELSE IF ~IsNone(d.calling_module)
                 THEN Raise("UnsupportedCallerError", w)
                 ELSE Hydra_create_main_hydra_file_or_module(
                          d.calling_file, None, Some(config_dir), jn, None, w)

\* faulty variant: the finally clause restores nothing
ctx_finally_skip(w, gh, held) == w

\* faulty variant: the finally clause clears the registry instead of restoring it
ctx_finally_clear(w, gh, held) == GlobalHydra_clear(w)

\* faulty variant: the finally clause puts the snapshot's state back into the
\* object that is live
ctx_finally_inplace(w, gh, held) == [w EXCEPT !.heap[w.inst] = w.heap[gh]]

\* The finally clause of a scoped variant: GlobalHydra.set_instance(gh)
ctx_finally(w, gh, held) == GlobalHydra_set_instance(w, gh, held)

\* faulty variant: the generator catches what its body raises
ctx_throw_swallow(w, gh, held, e) == Ok(ctx_finally(w, gh, held))

\* The body raises e: the error is thrown into the generator at its yield.
\* The try has no except clause, so the finally clause runs and e goes on.
ctx_throw(w, gh, held, e) == Raise(e, ctx_finally(w, gh, held))

\* Entering a scope: the generator runs up to its yield.  gh is the snapshot
\* the suspended generator keeps, None when the generator never reached the
\* yield; then the finally clause has already run and the body does not.
Entered(w, gh) == [err |-> "ok", w |-> w, gh |-> Some(gh)]
NotEntered(e, w) == [err |-> e, w |-> w, gh |-> None]

\* copy.deepcopy either returns the copy ("ok") or raises, as it does on an
\* object that holds something that cannot be copied
CopyOutcomes == {"ok", "CopyError"}

\* The finally clause reached while e is in flight and gh was never assigned:
\* reading gh, the argument of set_instance, raises UnboundLocalError; nothing
\* is set, and the new error takes the place of e.
ctx_finally_unbound(e, w) == NotEntered("UnboundLocalError", w)

\* faulty variant: the depth is raised by one only, for the generator's own
\* frame and not for contextlib's
initialize_ctx_depth1(callers, a, w, held, copy) ==
    IF ~IsNone(a.strict) THEN NotEntered("TypeError", w)
    ELSE IF copy # "ok" THEN ctx_finally_unbound(copy, w)
    ELSE LET c == deepcopy(w, GlobalHydra_instance(w), held)
             r == initialize(
                      << LibFrame("initialize_ctx"), ContextlibFrame >> \o callers,
                      [path |-> Some(ArgOr(a.path, None)),
                       job_name |-> Some(ArgOr(a.job_name, Some(AppName))),
                       strict |-> None,
                       depth |-> Some(ArgOr(a.depth, 1) + 1)],
                      c.w)
         IN  IF r.err = "ok" THEN Entered(r.w, c.ref)
             ELSE NotEntered(r.err, ctx_finally(r.w, c.ref, held))

\* strict is a parameter of initialize but not of initialize_ctx: a call that
\* passes it fails before the generator starts
initialize_ctx(callers, a, w, held, copy) ==
    IF ~IsNone(a.strict) THEN NotEntered("TypeError", w)
    ELSE IF copy # "ok" THEN ctx_finally_unbound(copy, w)
    ELSE LET c == deepcopy(w, GlobalHydra_instance(w), held)
             r == initialize(
                      << LibFrame("initialize_ctx"), ContextlibFrame >> \o callers,
                      [path |-> Some(ArgOr(a.path, None)),
                       job_name |-> Some(ArgOr(a.job_name, Some(AppName))),
                       strict |-> None,
                       depth |-> Some(ArgOr(a.depth, 1) + 2)],
                      c.w)
         IN  IF r.err = "ok" THEN Entered(r.w, c.ref)
             ELSE NotEntered(r.err, ctx_finally(r.w, c.ref, held))

initialize_config_module_ctx(a, w, held, copy) ==
    IF copy # "ok" THEN ctx_finally_unbound(copy, w) ELSE
    LET c == deepcopy(w, GlobalHydra_instance(w), held)
        r == initialize_config_module(
                 [path |-> a.path,
                  job_name |-> Some(ArgOr(a.job_name, AppName)),
                  strict |-> None, depth |-> None],
                 c.w)
    IN  IF r.err = "ok" THEN Entered(r.w, c.ref)
        ELSE NotEntered(r.err, ctx_finally(r.w, c.ref, held))

initialize_config_dir_ctx(callers, a, w, held, copy) ==
    IF copy # "ok" THEN ctx_finally_unbound(copy, w) ELSE
    LET c == deepcopy(w, GlobalHydra_instance(w), held)
        r == initialize_config_dir(
                 << LibFrame("initialize_config_dir_ctx"), ContextlibFrame >> \o callers,
                 [path |-> a.path,
                  job_name |-> Some(ArgOr(a.job_name, Some(AppName))),
                  strict |-> None,
                  depth |-> Some(ArgOr(a.depth, 1) + 2)],
                 c.w)
    IN  IF r.err = "ok" THEN Entered(r.w, c.ref)
        ELSE NotEntered(r.err, ctx_finally(r.w, c.ref, held))

\* ------------------------------------------------------------------ inputs
RelPath == << "conf" >>
AbsPath == << "/", "etc", "/", "conf" >>
ConfigModule == << "cfg", ".", "conf" >>
JobX == << "x" >>

\* call stacks of one to MaxStack user frames, no two of them alike, so that
\* the frame a call classifies is told by its result; and the depths asked for
Stacks ==
    {s \in UNION {[1..n -> UserFrames] : n \in 1..MaxStack} :
        \A i, k \in DOMAIN s : i # k => s[i] # s[k]}
DepthArgs == {None} \cup {Some(d) : d \in 2..MaxStack}

Args(paths, jobs, stricts, depths) ==
    [path : paths, job_name : jobs, strict : stricts, depth : depths]

\* the calls the signatures admit; strict is deprecated and passed alone
InitializeArgs ==
    Args({None, Some(Some(RelPath)), Some(Some(AbsPath))},
         {None, Some(None), Some(Some(JobX))}, {None}, DepthArgs)
    \cup Args({None}, {None}, {Some(Some(TRUE))}, {None})
ConfigModuleArgs == Args({Some(ConfigModule)}, {None, Some(JobX)}, {None}, {None})
ConfigDirArgs ==
    Args({Some(RelPath), Some(AbsPath)},
         {None, Some(None), Some(Some(JobX))}, {None}, DepthArgs)

\* Where scopes nest: a scope is entered from every kind of caller, and from
\* a stack too short for the depth asked; the calls in a scope's body are one
\* per entry point, made by a script.
NestedStacks == {s \in Stacks : Len(s) = 1}
BodyStacks == {<< ScriptFrame >>}
NestedInitializeCtxArgs == Args({Some(Some(RelPath))}, {None}, {None}, DepthArgs)
NestedConfigModuleArgs == Args({Some(ConfigModule)}, {None}, {None}, {None})
NestedConfigDirCtxArgs ==
    Args({Some(RelPath), Some(AbsPath)}, {None}, {None}, {None})
    \cup Args({Some(AbsPath)}, {None}, {None}, DepthArgs)
BodyInitializeArgs == Args({Some(Some(RelPath))}, {None}, {None}, {None})
BodyConfigDirArgs == Args({Some(AbsPath)}, {Some(Some(JobX))}, {None}, {None})

\* Where the frame a call classifies shows in what it installs: job_name is
\* passed as None, so the name is the classified caller's, and the path asks
\* nothing of the caller.
DepthInitializeArgs == Args({None}, {Some(None)}, {None}, DepthArgs)
DepthConfigDirArgs == Args({Some(AbsPath)}, {Some(None)}, {None}, DepthArgs)

NoArgs == [path |-> None, job_name |-> None, strict |-> None, depth |-> None]

\* ------------------------------------------------------------------- state
VARIABLES
    heap,     \* the GlobalHydra objects
    inst,     \* the singleton: the object GlobalHydra.instance() returns
    scopes,   \* the open scopes, innermost last: each suspended generator's gh
    last      \* the operation that led to this state, and what it was given

vars == << heap, inst, scopes, last >>

World == [heap |-> heap, inst |-> inst]
Held == {scopes[i].gh : i \in DOMAIN scopes}
IsInitialized == ~IsNone(Content(World).hydra)

\* what an action leaves in last: the call, the stack it was made from, the
\* error it raised ("ok" if none) and whether a Hydra was installed before it;
\* fault is the error raised by code the step runs but this file does not
\* hold (the body of a scope, copy.deepcopy), None when there is none
Record(op, a, callers, err) ==
    [op |-> op, a |-> a, callers |-> callers, err |-> err, wasInit |-> IsInitialized,
     fault |-> None]

\* the fault a failing copy.deepcopy puts into an entry step
CopyFault(copy) == IF copy = "ok" THEN None ELSE Some(copy)

\* A call made directly in a scope's body changes what that scope has live:
\* installed is what the scope installed, as long as its body has left it so.
Touched(w) ==
    IF scopes = << >> \/ Content(w) = Content(World) THEN scopes
    ELSE [scopes EXCEPT ![Len(scopes)].installed = None]

Init ==
    /\ heap = [i \in Ids |-> Absent]
    /\ inst = 0
    /\ scopes = << >>
    /\ last = [op |-> "start", a |-> NoArgs, callers |-> << >>, err |-> "ok",
               wasInit |-> FALSE, fault |-> None]

Initialize(callers, a) ==
    LET r == initialize(callers, a, World)
    IN  /\ heap' = r.w.heap
        /\ inst' = r.w.inst
        /\ scopes' = Touched(r.w)
        /\ last' = Record("initialize", a, callers, r.err)

\* callers is the stack the call is made from; the function is not given it
InitializeConfigModule(callers, a) ==
    LET r == initialize_config_module(a, World)
    IN  /\ heap' = r.w.heap
        /\ inst' = r.w.inst
        /\ scopes' = Touched(r.w)
        /\ last' = Record("initialize_config_module", a, callers, r.err)

InitializeConfigDir(callers, a) ==
    LET r == initialize_config_dir(callers, a, World)
    IN  /\ heap' = r.w.heap
        /\ inst' = r.w.inst
        /\ scopes' = Touched(r.w)
        /\ last' = Record("initialize_config_dir", a, callers, r.err)

\* GlobalHydra.instance().clear()
Clear ==
    LET w == GlobalHydra_clear(World)
    IN  /\ heap' = w.heap
        /\ inst' = w.inst
        /\ scopes' = Touched(w)
        /\ last' = Record("clear", NoArgs, << >>, "ok")

\* the scope a with statement opens when the generator reaches its yield:
\* its snapshot gh, and for the record the object that was live before it
\* (preInst), that object's content (pre) and the content installed
Opened(r) ==
    IF IsNone(r.gh) THEN scopes
    ELSE Append(scopes, [gh |-> Get(r.gh), preInst |-> inst, pre |-> Content(World),
                         installed |-> Some(Content(r.w))])

EnterInitializeCtx(callers, a, copy) ==
    LET r == initialize_ctx(callers, a, World, Held, copy)
    IN  /\ Len(scopes) < MaxNesting
        /\ heap' = r.w.heap
        /\ inst' = r.w.inst
        /\ scopes' = Opened(r)
        /\ last' = [Record("initialize_ctx", a, callers, r.err)
                        EXCEPT !.fault = CopyFault(copy)]

EnterInitializeConfigModuleCtx(a, copy) ==
    LET r == initialize_config_module_ctx(a, World, Held, copy)
    IN  /\ Len(scopes) < MaxNesting
        /\ heap' = r.w.heap
        /\ inst' = r.w.inst
        /\ scopes' = Opened(r)
        /\ last' = [Record("initialize_config_module_ctx", a, << >>, r.err)
                        EXCEPT !.fault = CopyFault(copy)]

EnterInitializeConfigDirCtx(callers, a, copy) ==
    LET r == initialize_config_dir_ctx(callers, a, World, Held, copy)
    IN  /\ Len(scopes) < MaxNesting
        /\ heap' = r.w.heap
        /\ inst' = r.w.inst
        /\ scopes' = Opened(r)
        /\ last' = [Record("initialize_config_dir_ctx", a, callers, r.err)
                        EXCEPT !.fault = CopyFault(copy)]

\* The body of the innermost scope returns: the generator resumes after its
\* yield and runs the finally clause.
BodyReturns ==
    /\ scopes # << >>
    /\ LET s == scopes[Len(scopes)]
           rest == SubSeq(scopes, 1, Len(scopes) - 1)
           w == ctx_finally(World, s.gh, {rest[i].gh : i \in DOMAIN rest})
       IN  /\ heap' = w.heap
           /\ inst' = w.inst
           /\ scopes' = rest
           /\ last' = Record("exit", NoArgs, << >>, "ok")

\* The body of the innermost scope raises: the error is thrown into the
\* generator at its yield, and what the generator lets out reaches the code
\* around the scope.
BodyRaises ==
    /\ scopes # << >>
    /\ LET s == scopes[Len(scopes)]
           rest == SubSeq(scopes, 1, Len(scopes) - 1)
           r == ctx_throw(World, s.gh, {rest[i].gh : i \in DOMAIN rest}, "BodyError")
       IN  /\ heap' = r.w.heap
           /\ inst' = r.w.inst
           /\ scopes' = rest
           /\ last' = [Record("exit", NoArgs, << >>, r.err) EXCEPT !.fault = Some("BodyError")]

\* Scopes nested up to MaxNesting deep, with calls and clear() in their
\* bodies; every snapshot is taken
Next ==
    \/ \E callers \in BodyStacks, a \in BodyInitializeArgs : Initialize(callers, a)
    \/ \E callers \in BodyStacks, a \in NestedConfigModuleArgs : InitializeConfigModule(callers, a)
    \/ \E callers \in BodyStacks, a \in BodyConfigDirArgs : InitializeConfigDir(callers, a)
    \/ Clear
    \/ \E callers \in NestedStacks, a \in NestedInitializeCtxArgs :
           EnterInitializeCtx(callers, a, "ok")
    \/ \E a \in NestedConfigModuleArgs : EnterInitializeConfigModuleCtx(a, "ok")
    \/ \E callers \in NestedStacks, a \in NestedConfigDirCtxArgs :
           EnterInitializeConfigDirCtx(callers, a, "ok")
    \/ BodyReturns
    \/ BodyRaises

Spec == Init /\ [][Next]_vars

\* Every shape of call, made outside any scope
NextCalls ==
    \/ \E callers \in Stacks, a \in InitializeArgs : Initialize(callers, a)
    \/ \E callers \in Stacks, a \in ConfigModuleArgs : InitializeConfigModule(callers, a)
    \/ \E callers \in Stacks, a \in ConfigDirArgs : InitializeConfigDir(callers, a)
    \/ Clear

SpecCalls == Init /\ [][NextCalls]_vars

\* The calls that classify a caller, from every stack and at every depth, each
\* made outside any scope, the scoped ones with copy.deepcopy free to fail; the
\* body of a scope makes no call
NextEnter ==
    \/ \E callers \in Stacks, a \in DepthInitializeArgs :
           scopes = << >> /\ Initialize(callers, a)
    \/ \E callers \in Stacks, a \in DepthConfigDirArgs :
           scopes = << >> /\ InitializeConfigDir(callers, a)
    \/ \E callers \in Stacks, a \in DepthInitializeArgs, copy \in CopyOutcomes :
           scopes = << >> /\ EnterInitializeCtx(callers, a, copy)
    \/ \E a \in NestedConfigModuleArgs, copy \in CopyOutcomes :
           scopes = << >> /\ EnterInitializeConfigModuleCtx(a, copy)
    \/ \E callers \in Stacks, a \in DepthConfigDirArgs, copy \in CopyOutcomes :
           scopes = << >> /\ EnterInitializeConfigDirCtx(callers, a, copy)
    \/ BodyReturns
    \/ BodyRaises

SpecEnter == Init /\ [][NextEnter]_vars

\* ================================================================== claims
UnscopedOps == {"initialize", "initialize_config_module", "initialize_config_dir"}
ScopedOps == {"initialize_ctx", "initialize_config_module_ctx", "initialize_config_dir_ctx"}

\* the registry's content after the step
ContentAfter == heap'[inst']

\* the user frame the last call asked to have classified, None past the stack
CallerOf(l) ==
    IF ArgOr(l.a.depth, 1) <= Len(l.callers)
    THEN Some(l.callers[ArgOr(l.a.depth, 1)]) ELSE None

CalledBy(l, frame) == CallerOf(l) = Some(frame)

Installed(search_path, job_name, strict) ==
    [hydra |-> Some([searchPath |-> search_path, jobName |-> job_name, strict |-> strict])]

\* C1: once a scope of any of the three variants has exited, by its body
\* returning or raising, the registry's content is the content it had before
\* the scope was entered.
C1_ScopeRestoresPreState ==
    [][last'.op = "exit" => ContentAfter = scopes[Len(scopes)].pre]_vars

\* a scope entered with a Hydra installed was left by a raising body
C1_Witness ==
    /\ last.op = "exit"
    /\ last.err = "BodyError"
    /\ IsInitialized

\* C2: restoration is LIFO.  When a scope nested in another exits, the
\* registry holds what the enclosing scope installed (the enclosing body
\* having done nothing else to the registry itself), the enclosing scope stays
\* open, and when the outermost scope exits the registry holds what was live
\* before it was entered.
C2_NestedScopesRestoreLifo ==
    [][last'.op = "exit" =>
          LET n == Len(scopes)
          IN  /\ scopes' = SubSeq(scopes, 1, n - 1)
              /\ (n > 1 /\ ~IsNone(scopes[n - 1].installed))
                     => ContentAfter = Get(scopes[n - 1].installed)
              /\ n = 1 => ContentAfter = scopes[1].pre]_vars

\* an inner scope that installed something else has exited inside an outer one
C2_Witness ==
    /\ last.op = "exit"
    /\ Len(scopes) = 1
    /\ scopes[1].installed # None
    /\ scopes[1].installed # Some(scopes[1].pre)
    /\ Some(Content(World)) = scopes[1].installed

\* What a call is to install, read off its arguments and its caller alone.
ConfDirOfScript == << "/", "a", "/", "b", "/", "conf" >>

DerivedName(frame) ==
    IF frame = ScriptFrame THEN << "my_app" >>
    ELSE IF frame = ModuleFrame THEN << "runner" >>
    ELSE << "app" >>

\* the job_name of the call once the signature's default is applied
JobArgOf(l) ==
    IF l.op \in {"initialize_config_dir"} THEN ArgOr(l.a.job_name, None)
    ELSE IF l.op \in {"initialize_config_module", "initialize_config_module_ctx"}
    THEN Some(ArgOr(l.a.job_name, AppName))
    ELSE ArgOr(l.a.job_name, Some(AppName))

TakesPath(l) == l.op \notin {"initialize_config_module", "initialize_config_module_ctx"}
PathArgOf(l) ==
    IF l.op \in {"initialize", "initialize_ctx"} THEN ArgOr(l.a.path, None) ELSE l.a.path
IsRelative(l) == TakesPath(l) /\ PathArgOf(l) = Some(RelPath)
IsAbsolute(l) == TakesPath(l) /\ PathArgOf(l) = Some(AbsPath)
Detects(l) == TakesPath(l)

ExpectedErr(l) ==
    IF Detects(l) /\ IsNone(CallerOf(l)) THEN "DetectionError"
    ELSE IF IsRelative(l) /\ ~CalledBy(l, ScriptFrame) THEN "UnsupportedCallerError"
    ELSE "ok"

ExpectedJobName(l) ==
    IF IsNone(JobArgOf(l)) THEN DerivedName(Get(CallerOf(l))) ELSE Get(JobArgOf(l))

ExpectedSearchPath(l) ==
    IF ~TakesPath(l) THEN << PackageEntry(ConfigModule), DefaultEntry >>
    ELSE IF IsAbsolute(l) THEN << FileEntry(AbsPath), DefaultEntry >>
    ELSE IF IsRelative(l) THEN << FileEntry(ConfDirOfScript), DefaultEntry >>
    ELSE IF CalledBy(l, ModuleFrame)
    THEN << PackageEntry(<< "pkg", ".", "sub" >>), DefaultEntry >>
    ELSE << DefaultEntry >>

ExpectedStrict(l) == IF l.op = "initialize" THEN ArgOr(l.a.strict, None) ELSE None

\* C3: an unscoped entry point called when a Hydra is already installed fails
\* only as it would on an empty registry, never for being initialized, and
\* leaves exactly the state of this call: its search path and job name, with
\* nothing of the earlier call's.
C3_SecondCallReplacesState ==
    (last.op \in UnscopedOps /\ last.wasInit) =>
        /\ last.err = ExpectedErr(last)
        /\ last.err = "ok" =>
               Content(World) = Installed(ExpectedSearchPath(last), ExpectedJobName(last),
                                          ExpectedStrict(last))

\* initialize_config_dir succeeded on a registry that already held a Hydra
C3_Witness ==
    /\ last.op = "initialize_config_dir"
    /\ last.wasInit
    /\ last.err = "ok"
    /\ IsAbsolute(last)

\* C4: initialize_config_dir with a relative config_dir and a module caller
\* raises the unsupported-caller error and leaves the registry as it was.
C4_RelativeDirModuleCallerRejected ==
    [][(last'.op = "initialize_config_dir" /\ IsRelative(last') /\ CalledBy(last', ModuleFrame))
          => (last'.err = "UnsupportedCallerError" /\ heap' = heap /\ inst' = inst)]_vars

\* the rejected call was made with a Hydra installed
C4_Witness ==
    /\ last.op = "initialize_config_dir"
    /\ IsRelative(last)
    /\ CalledBy(last, ModuleFrame)
    /\ last.err = "UnsupportedCallerError"
    /\ IsInitialized

\* C5: when the initialization inside a scoped variant fails, the error
\* reaches the code entering the scope, no scope is opened (the body does not
\* run), and the registry's content is what it was before; a scope opens
\* exactly when the initialization succeeds.
C5_FailedEnterLeavesRegistry ==
    [][last'.op \in ScopedOps =>
          /\ last'.err \in {"DetectionError", "UnsupportedCallerError"} =>
                 (scopes' = scopes /\ ContentAfter = Content(World))
          /\ last'.err = "ok" <=> Len(scopes') = Len(scopes) + 1
          /\ last'.err = ExpectedErr(last')]_vars

\* a scoped variant failed with the unsupported-caller error over a Hydra
C5_Witness ==
    /\ last.op = "initialize_config_dir_ctx"
    /\ last.err = "UnsupportedCallerError"
    /\ IsInitialized

\* a scoped variant failed with the detection error inside another scope
C5_WitnessDetection ==
    /\ last.op = "initialize_ctx"
    /\ last.err = "DetectionError"
    /\ scopes # << >>

C7_AbsoluteDirIgnoresCaller ==
    (last.op = "initialize_config_dir" /\ IsAbsolute(last)
        /\ last.a.job_name = Some(Some(JobX)) /\ ~IsNone(CallerOf(last)))
    => /\ last.err = "ok"
       /\ Content(World) = Installed(<< FileEntry(AbsPath), DefaultEntry >>, JobX, None)

\* the call came from an imported module
C7_Witness ==
    /\ last.op = "initialize_config_dir"
    /\ IsAbsolute(last)
    /\ last.a.job_name = Some(Some(JobX))
    /\ CalledBy(last, ModuleFrame)
    /\ last.err = "ok"

\* an empty registry, to make a call on
FreshWorld == [heap |-> [i \in Ids |-> Absent], inst |-> 0]

\* what the unscoped counterpart does with the arguments and stack of l
UnscopedCounterpart(l) ==
    IF l.op = "initialize_ctx" THEN initialize(l.callers, l.a, FreshWorld)
    ELSE IF l.op = "initialize_config_module_ctx" THEN initialize_config_module(l.a, FreshWorld)
    ELSE initialize_config_dir(l.callers, l.a, FreshWorld)

\* C8: a scoped variant given the arguments of its unscoped counterpart, those
\* left at their defaults included, by the same caller, fails as the
\* counterpart fails and otherwise has live in its body the state the
\* counterpart installs.
C8_ScopedInstallsWhatUnscopedDoes ==
    last.op \in ScopedOps =>
        /\ last.err = UnscopedCounterpart(last).err
        /\ last.err = "ok" => Content(World) = Content(UnscopedCounterpart(last).w)

\* C9: initialize and initialize_config_dir install the job name given; given
\* None they install the name derived from the caller: the calling file's
\* basename without its extension, else the last component of the calling
\* module's name, else "app".
C9_JobNameDerivedFromCaller ==
    (last.op \in {"initialize", "initialize_config_dir"} /\ last.err = "ok") =>
        /\ IsInitialized
        /\ Get(Content(World).hydra).jobName = ExpectedJobName(last)

\* initialize(job_name=None) from an imported module installed "runner"
C9_Witness ==
    /\ last.op = "initialize"
    /\ last.a.job_name = Some(None)
    /\ CalledBy(last, ModuleFrame)
    /\ last.err = "ok"
    /\ Get(Content(World).hydra).jobName = << "runner" >>

\* C10: in an installed search path the built-in entry is the last one, every
\* entry before it is the user's, and the directory the call names is first:
\* the directory beside the script for initialize with a relative path, the
\* directory itself for initialize_config_dir with an absolute one.
C10_UserEntriesBeforeDefault ==
    IsInitialized =>
        LET sp == Get(Content(World).hydra).searchPath
        IN  /\ Len(sp) >= 1
            /\ sp[Len(sp)] = DefaultEntry
            /\ \A i \in 1..(Len(sp) - 1) : sp[i].provider = "main" /\ sp[i] # DefaultEntry
            /\ (last.op = "initialize" /\ last.err = "ok" /\ IsRelative(last))
                   => sp[1] = FileEntry(ConfDirOfScript)
            /\ (last.op = "initialize_config_dir" /\ last.err = "ok" /\ IsAbsolute(last))
                   => sp[1] = FileEntry(AbsPath)

\* initialize(config_path="conf") from the script /a/b/my_app.py
C10_Witness ==
    /\ last.op = "initialize"
    /\ IsRelative(last)
    /\ CalledBy(last, ScriptFrame)
    /\ last.err = "ok"
    /\ Len(Get(Content(World).hydra).searchPath) > 1

\* C11: the snapshot of a scope is an object of its own.  Whatever the body
\* does (calls of the entry points, clear(), scopes nested in it and their
\* exits), the snapshot of every open scope keeps the content the registry had
\* when the scope was entered and is never the live object; and the exit of
\* a scope makes live exactly the content its snapshot holds.
C11_SnapshotIndependentOfBody ==
    [][/\ \A i \in DOMAIN scopes' :
              /\ heap'[scopes'[i].gh] = scopes'[i].pre
              /\ scopes'[i].gh # inst'
       /\ last'.op = "exit" => ContentAfter = heap[scopes[Len(scopes)].gh]]_vars

\* a body cleared the registry its scope had been entered with, and the exit
\* of the scope brought the Hydra captured at entry back
C11_Witness ==
    /\ last.op = "exit"
    /\ ~last.wasInit
    /\ IsInitialized

\* C12: when the body of an open scope raises, the scope's snapshot is made
\* live again (the restore runs), the scope is closed, and the error that
\* reaches the code around the scope is the body's own: not swallowed, not
\* another one.
C12_BodyErrorPropagatesAfterRestore ==
    [][(last'.op = "exit" /\ last'.fault # None) =>
          /\ inst' = scopes[Len(scopes)].gh
          /\ ContentAfter = scopes[Len(scopes)].pre
          /\ scopes' = SubSeq(scopes, 1, Len(scopes) - 1)
          /\ last'.err = Get(last'.fault)]_vars

\* a scope entered on an empty registry was left by its body raising
C12_Witness ==
    /\ last.op = "exit"
    /\ last.fault = Some("BodyError")
    /\ last.err = "BodyError"
    /\ last.wasInit
    /\ ~IsInitialized

DetectingOps == {"initialize", "initialize_config_dir", "initialize_ctx", "initialize_config_dir_ctx"}

\* C13: with caller_stack_depth = d, initialize and initialize_config_dir
\* classify the d-th frame above themselves, and initialize_ctx and
\* initialize_config_dir_ctx the d-th frame above the with statement: given
\* job_name None the call installs the name derived from that frame (and
\* initialize, given no path, the search path of that frame), and it fails
\* with the detection error exactly when the stack has no such frame.
C13_DepthCountsFromTheCaller ==
    (last.op \in DetectingOps /\ last.fault = None /\ last.a.job_name = Some(None)) =>
        LET d == ArgOr(last.a.depth, 1)
        IN  IF d > Len(last.callers) THEN last.err = "DetectionError"
            ELSE /\ last.err = "ok"
                 /\ IsInitialized
                 /\ Get(Content(World).hydra).jobName = DerivedName(last.callers[d])
                 /\ last.op \in {"initialize", "initialize_ctx"} =>
                        Get(Content(World).hydra).searchPath =
                            (IF last.callers[d] = ModuleFrame
                             THEN << PackageEntry(<< "pkg", ".", "sub" >>), DefaultEntry >>
                             ELSE << DefaultEntry >>)

\* initialize_ctx(job_name=None, caller_stack_depth=2) in a module function
\* called by the script took the script's name
C13_Witness ==
    /\ last.op = "initialize_ctx"
    /\ last.a.depth = Some(2)
    /\ last.callers = << ModuleFrame, ScriptFrame >>
    /\ last.err = "ok"
    /\ Get(Content(World).hydra).jobName = << "my_app" >>

\* C14: initialize and initialize_config_dir asked for a frame the stack does
\* not have raise the detection error and leave the registry, object and
\* content, as it was; initialize_config_dir does so even when config_dir is
\* absolute and a job name is given, when nothing of the caller is needed.
C14_DetectionErrorLeavesRegistry ==
    [][(last'.op \in {"initialize", "initialize_config_dir"} /\ IsNone(CallerOf(last')))
          => (last'.err = "DetectionError" /\ heap' = heap /\ inst' = inst)]_vars

\* initialize_config_dir("/etc/conf", job_name="x") failed so over a Hydra
C14_Witness ==
    /\ last.op = "initialize_config_dir"
    /\ IsAbsolute(last)
    /\ last.a.job_name = Some(Some(JobX))
    /\ IsNone(CallerOf(last))
    /\ last.err = "DetectionError"
    /\ last.wasInit
    /\ IsInitialized

\* C15: initialize_config_module looks at no caller.  From every stack and
\* kind of caller it succeeds and installs the one state the builder makes of
\* no calling file, the calling module "<config_module>.<job_name>", no
\* config path and the job name given ("app" by default): the package entry
\* of config_module followed by the built-in entry.
C15_ConfigModuleIgnoresCaller ==
    last.op = "initialize_config_module" =>
        LET job_name == ArgOr(last.a.job_name, AppName)
            built == Hydra_create_main_hydra_file_or_module(
                         None, Some(ConfigModule \o << "." >> \o job_name), None,
                         job_name, None, FreshWorld)
        IN  /\ last.err = "ok"
            /\ Content(World) = Content(built.w)
            /\ Content(World) =
                   Installed(<< PackageEntry(ConfigModule), DefaultEntry >>, job_name, None)

\* the call came from a function two frames up from a notebook cell
C15_Witness ==
    /\ last.op = "initialize_config_module"
    /\ last.callers = << ModuleFrame, NotebookFrame >>
    /\ last.a.job_name = Some(JobX)
    /\ last.err = "ok"
    /\ last.wasInit

C17_ExitInstallsTheCopy ==
    [][last'.op = "exit" =>
          LET s == scopes[Len(scopes)]
          IN  /\ inst' = s.gh
              /\ inst' # s.preInst
              /\ inst' # inst
              /\ heap'[inst'] = s.pre]_vars

\* a scope entered over an installed Hydra has exited: the Hydra is live
\* again, in another object than the first one
C17_Witness ==
    /\ last.op = "exit"
    /\ last.fault = None
    /\ scopes = << >>
    /\ IsInitialized
    /\ inst # 0

\* C18: when copy.deepcopy raises on entering a scope, no scope is opened,
\* the registry is left as it was, and the error the code entering the scope
\* gets is the one copy.deepcopy raised.
C18_CopyErrorReachesCaller ==
    [][(last'.op \in ScopedOps /\ last'.fault # None) =>
          /\ scopes' = scopes
          /\ heap' = heap
          /\ inst' = inst
          /\ last'.err = Get(last'.fault)]_vars

\* the first part alone: a failing copy.deepcopy opens no scope and changes
\* nothing of the registry
C18_CopyErrorLeavesRegistry ==
    [][(last'.op \in ScopedOps /\ last'.fault # None) =>
          (scopes' = scopes /\ heap' = heap /\ inst' = inst)]_vars

\* initialize_config_dir_ctx over an installed Hydra, copy.deepcopy raising
C18_Witness ==
    /\ last.op = "initialize_config_dir_ctx"
    /\ last.fault = Some("CopyError")
    /\ last.err = "UnboundLocalError"
    /\ IsInitialized

====
